---- MODULE Spec2Model ----
(***************************************************************************)
(* Tool-calling core of the Nyxn AI Assistant extension:                   *)
(*   ToolManager   (src/src/tools/toolManager.js)                          *)
(*   GeminiService (src/src/geminiService.js, second class, lines 284-603) *)
(*   NyxnWebviewProvider and the chat view script                          *)
(*                                                                         *)
(* Texts are sequences of lexemes.  Every lexeme is either a complete tag  *)
(* (it starts with "<" and ends with ">"), a fixed piece of an error or    *)
(* result template, or a piece of plain text that holds no "<".  The       *)
(* lexemes form a prefix code, so two texts are equal as JavaScript        *)
(* strings exactly when they are equal as sequences, and the regular       *)
(* expressions and String.prototype.replace of the source are computed on  *)
(* the sequences.                                                          *)
(***************************************************************************)
EXTENDS Integers, Sequences, FiniteSets, TLC

VARIABLES
    pc,             \* position of the executeToolCalls / parseToolCalls caller
    text,           \* executeToolCalls: the parameter `text`
    toolCalls,      \* executeToolCalls: const toolCalls
    idx,            \* executeToolCalls: position of the for-of loop (1-based)
    processedText,  \* executeToolCalls: let processedText
    results,        \* executeToolCalls: const results
    substitutions,  \* observer: per loop turn, how many spans String.replace replaced
    tools,          \* ToolManager.tools (Map name -> {execute, metadata})
    toolResults,    \* ToolManager.toolResults (Map name -> {parameters, result})
    written,        \* observer: the pieces a parsed text was put together from
    inv,            \* a direct caller of executeTool: its position and outcome
    execLog,        \* observer: the calls made to tool functions, in order
    fnReturned,     \* observer: the values the tool functions returned, in order
    posted,         \* observer: the messages the chat view posted, in order
    inbox,          \* messages of the chat view the provider has not handled yet
    chatHistory,    \* NyxnWebviewProvider.chatHistory, which the view renders
    disabled,       \* chat view: the Execute buttons clicked since the last rendering
    isLoading,      \* chat view: let isLoading
    turn,           \* position of _handleUserMessage / generateContent
    geminiHistory,  \* GeminiService.chatHistory
    handed,         \* observer: the history startChat was last called with
    response,       \* observer: <<what generateContent returned last>>, if it has
    enableTools,    \* the setting nyxn-ai-assistant.enableTools
    outbox,         \* messages of the provider the chat view has not handled yet
    running,        \* the _handleUserMessage calls in progress, oldest first
    appended,       \* observer: the pushes to and the clearings of GeminiService.chatHistory
    registered      \* observer: the registerTool calls made, in order

passVars == <<pc, text, toolCalls, idx, processedText, results, substitutions,
              written>>

chatVars == <<posted, inbox, chatHistory, disabled, isLoading, turn, geminiHistory>>

auxVars == <<handed, response, enableTools, outbox, running, appended, registered>>

vars == <<pc, text, toolCalls, idx, processedText, results, substitutions,
          written, tools, toolResults, inv, execLog, fnReturned,
          posted, inbox, chatHistory, disabled, isLoading, turn, geminiHistory,
          handed, response, enableTools, outbox, running, appended, registered>>

----------------------------------------------------------------------------
(* Sequence helpers *)

Min(S) == CHOOSE m \in S : \A n \in S : m <= n

Max(S) == CHOOSE m \in S : \A n \in S : m >= n

RECURSIVE Flatten(_)
Flatten(ss) == IF ss = <<>> THEN <<>> ELSE Head(ss) \o Flatten(Tail(ss))

\* String.prototype.indexOf(pat) from position `from` (1-based); 0 when absent
IndexOf(s, pat, from) ==
    LET hits == {i \in from..(Len(s) - Len(pat) + 1) :
                    SubSeq(s, i, i + Len(pat) - 1) = pat}
    IN  IF hits = {} THEN 0 ELSE Min(hits)

Contains(s, pat) == IndexOf(s, pat, 1) # 0

\* String.prototype.trim: white space at both ends removed
IsWhiteSpace(t) == t \in {"\n", " "}

Trim(s) ==
    LET solid == {i \in 1..Len(s) : ~IsWhiteSpace(s[i])}
    IN  IF solid = {} THEN <<>> ELSE SubSeq(s, Min(solid), Max(solid))

----------------------------------------------------------------------------
(* ToolManager.parseToolCalls *)

\* <tool[^>]*> : the opening tag of the outer expression; the texts that are
\* parsed hold no other opening tag that begins with <tool
ToolOpenTags == {"<tool>"}

\* <param\s+name="([^"]+)"> : the opening tag of a parameter and its name
ParamOpenName ==
    [t \in {"<param name=\"file_path\">", "<param name=\"content\">"} |->
        IF t = "<param name=\"file_path\">" THEN "file_path" ELSE "content"]

ParamOpenTags == DOMAIN ParamOpenName

\* RegExp.exec of  open([\s\S]*?)close  on s from position `from`: the
\* leftmost opening tag that has a closing tag after it, up to the first
\* such closing tag.
LazyPairExec(s, opens, close, from) ==
    LET starts == {i \in from..Len(s) :
                      s[i] \in opens /\ \E j \in (i+1)..Len(s) : s[j] = close}
    IN  IF starts = {}
        THEN [found |-> FALSE, start |-> 0, end |-> 0, inner |-> <<>>]
        ELSE LET i == Min(starts)
                 j == Min({k \in (i+1)..Len(s) : s[k] = close})
             IN  [found |-> TRUE, start |-> i, end |-> j,
                  inner |-> SubSeq(s, i + 1, j - 1)]

NameOpenTags == {"<name>"}

ParametersOpenTags == {"<parameters>"}

NoParams == [k \in {} |-> <<>>]

\* the while loop over paramRegex.exec(paramsContent): params[paramName] = paramValue
RECURSIVE ParseParams(_, _, _)
ParseParams(paramsContent, from, params) ==
    LET m == LazyPairExec(paramsContent, ParamOpenTags, "</param>", from)
    IN  IF ~m.found THEN params
        ELSE ParseParams(paramsContent, m.end + 1,
                         (ParamOpenName[paramsContent[m.start]] :> Trim(m.inner)) @@ params)

\* the while loop over toolCallRegex.exec(text): the matches with their
\* positions, a match without <name> or <parameters> pushing no call
RECURSIVE ToolCallMatches(_, _)
ToolCallMatches(t, from) ==
    LET m == LazyPairExec(t, ToolOpenTags, "</tool>", from)
    IN  IF ~m.found THEN <<>>
        ELSE LET toolCallContent == Trim(m.inner)
                 nameMatch == LazyPairExec(toolCallContent, NameOpenTags, "</name>", 1)
                 paramsMatch == LazyPairExec(toolCallContent, ParametersOpenTags,
                                             "</parameters>", 1)
                 here == IF nameMatch.found /\ paramsMatch.found
                         THEN << [start |-> m.start, end |-> m.end,
                                  name |-> Trim(nameMatch.inner),
                                  parameters |-> ParseParams(Trim(paramsMatch.inner), 1, NoParams),
                                  originalText |-> SubSeq(t, m.start, m.end)] >>
                         ELSE <<>>
             IN  here \o ToolCallMatches(t, m.end + 1)

parseToolCalls(t) ==
    LET ms == ToolCallMatches(t, 1)
    IN  [k \in 1..Len(ms) |->
            [name |-> ms[k].name, parameters |-> ms[k].parameters,
             originalText |-> ms[k].originalText]]

\* a caller of parseToolCalls(text), the text put together from `pieces`
ParseToolCalls(pieces) ==
    /\ pc = "idle"
    /\ pc' = "parsed"
    /\ written' = pieces
    /\ text' = Flatten(pieces)
    /\ toolCalls' = parseToolCalls(Flatten(pieces))
    /\ UNCHANGED <<idx, processedText, results, substitutions,
                   tools, toolResults, inv, execLog, fnReturned>>

----------------------------------------------------------------------------
(* ToolManager.registerTool and the registry the provider builds *)

\* a registerTool that leaves the entry of a name that is registered
registerToolKeepsFirst(reg, toolName, toolFunction, required) ==
    reg @@ (toolName :> [execute |-> toolFunction, required |-> required])

\* this.tools.set(toolName, {execute: toolFunction, metadata: {...}})
registerTool(reg, toolName, toolFunction, required) ==
    (toolName :> [execute |-> toolFunction, required |-> required]) @@ reg

NoTools == [n \in {} |-> [execute |-> "", required |-> <<>>]]

\* the calls FileTools.registerTools makes, as far as the model's texts name
\* its tools
FileToolsRegistrations ==
    << [name |-> <<"read-file">>, execute |-> "readFile", required |-> <<"file_path">>],
       [name |-> <<"write-file">>, execute |-> "writeFile",
        required |-> <<"file_path", "content">>] >>

\* the registry after the registrations of `log`, made in order
RECURSIVE RegistryAfter(_)
RegistryAfter(log) ==
    IF log = <<>> THEN NoTools
    ELSE LET last == log[Len(log)]
         IN  registerTool(RegistryAfter(SubSeq(log, 1, Len(log) - 1)),
                          last.name, last.execute, last.required)

RegisteredTools == RegistryAfter(FileToolsRegistrations)

----------------------------------------------------------------------------
(* ToolManager.executeTool *)

NotFoundMessage(toolName) == <<"Tool '">> \o toolName \o <<"' not found">>

MissingParameterMessage(requiredParam, toolName) ==
    <<"Missing required parameter '", requiredParam, "' for tool '">>
        \o toolName \o <<"'">>

\* the statements of executeTool before `await tool.execute(parameters)`:
\* either an Error is thrown or the tool function is called
executeToolCheck(reg, toolName, parameters) ==
    IF toolName \notin DOMAIN reg
    THEN [ok |-> FALSE, message |-> NotFoundMessage(toolName)]
    ELSE LET required == reg[toolName].required
             absent == {i \in 1..Len(required) : required[i] \notin DOMAIN parameters}
         IN  IF absent # {}
             THEN [ok |-> FALSE,
                   message |-> MissingParameterMessage(required[Min(absent)], toolName)]
             ELSE [ok |-> TRUE, message |-> <<>>]

\* tool.execute() called without the map
CallToolFunctionWithoutParameters(log, toolName, parameters) ==
    Append(log, [name |-> toolName, parameters |-> NoParams])

\* tool.execute(parameters): the tool function is called with the map
CallToolFunction(log, toolName, parameters) ==
    Append(log, [name |-> toolName, parameters |-> parameters])

\* a cache that keeps the entry a name has
StoreResultKeepsFirst(cache, toolName, parameters, result) ==
    cache @@ (toolName :> [parameters |-> parameters, result |-> result])

\* this.toolResults.set(toolName, {parameters, result, timestamp})
StoreResult(cache, toolName, parameters, result) ==
    (toolName :> [parameters |-> parameters, result |-> result]) @@ cache

NoValue == [type |-> "string", val |-> <<>>]

TurnIdle == [st |-> "idle", prompt |-> <<>>]

\* generateContent has not returned yet
NoHandOver == [history |-> <<>>, catalog |-> <<>>]

InvIdle ==
    [st |-> "idle", toolName |-> <<>>, parameters |-> [k \in {} |-> <<>>],
     value |-> NoValue, message |-> <<>>]

\* executeTool(toolName, parameters) throws before the tool function is called
ExecuteToolRejected(toolName, parameters) ==
    /\ inv.st = "idle"
    /\ LET check == executeToolCheck(tools, toolName, parameters)
       IN  /\ ~check.ok
           /\ inv' = [st |-> "threw", toolName |-> toolName, parameters |-> parameters,
                      value |-> NoValue, message |-> check.message]
    /\ UNCHANGED <<passVars, tools, toolResults, execLog, fnReturned>>

\* executeTool(toolName, parameters) reaches `await tool.execute(parameters)`
ExecuteToolInvoke(toolName, parameters) ==
    /\ inv.st = "idle"
    /\ executeToolCheck(tools, toolName, parameters).ok
    /\ execLog' = CallToolFunction(execLog, toolName, parameters)
    /\ inv' = [st |-> "awaiting", toolName |-> toolName, parameters |-> parameters,
               value |-> NoValue, message |-> <<>>]
    /\ UNCHANGED <<passVars, tools, toolResults, fnReturned>>

\* the tool function returns: the result is stored and returned
ExecuteToolReturns(result) ==
    /\ inv.st = "awaiting"
    /\ fnReturned' = Append(fnReturned, result)
    /\ toolResults' = StoreResult(toolResults, inv.toolName, inv.parameters, result)
    /\ inv' = [inv EXCEPT !.st = "returned", !.value = result]
    /\ UNCHANGED <<passVars, tools, execLog>>

\* the tool function throws: `throw error`
ExecuteToolThrows(message) ==
    /\ inv.st = "awaiting"
    /\ inv' = [inv EXCEPT !.st = "threw", !.message = message]
    /\ UNCHANGED <<passVars, tools, toolResults, execLog, fnReturned>>

----------------------------------------------------------------------------
(* String.prototype.replace(searchString, replaceString) *)

\* GetSubstitution: $$, $&, $` and $' in the replacement string are
\* expanded; any other "$" stays as it is
RECURSIVE GetSubstitution(_, _, _, _)
GetSubstitution(matched, str, position, replacement) ==
    IF replacement = <<>> THEN <<>>
    ELSE IF Head(replacement) = "$" /\ Len(replacement) >= 2
         THEN LET rest == GetSubstitution(matched, str, position,
                                          SubSeq(replacement, 3, Len(replacement)))
              IN  CASE replacement[2] = "$" -> <<"$">> \o rest
                    [] replacement[2] = "&" -> matched \o rest
                    [] replacement[2] = "`" -> SubSeq(str, 1, position - 1) \o rest
                    [] replacement[2] = "'" ->
                           SubSeq(str, position + Len(matched), Len(str)) \o rest
                    [] OTHER -> <<"$">> \o GetSubstitution(matched, str, position,
                                                           Tail(replacement))
         ELSE <<Head(replacement)>> \o GetSubstitution(matched, str, position,
                                                       Tail(replacement))

StringReplace(str, searchValue, replaceValue) ==
    LET pos == IndexOf(str, searchValue, 1)
    IN  IF pos = 0 THEN str
        ELSE SubSeq(str, 1, pos - 1)
                \o GetSubstitution(searchValue, str, pos, replaceValue)
                \o SubSeq(str, pos + Len(searchValue), Len(str))

----------------------------------------------------------------------------
(* ToolManager.executeToolCalls *)

\* A tool result is [type, val]: a string result holds its text in val; an
\* object result holds its properties in val as key, value, key, value ...
JSONQuote(t) == CASE t = "\n" -> "\\n" [] t = "\"" -> "\\\"" [] OTHER -> t

RECURSIVE JSONProperties(_)
JSONProperties(kv) ==
    IF Len(kv) < 2 THEN <<>>
    ELSE <<"  ", "\"", JSONQuote(kv[1]), "\"", ": ", "\"", JSONQuote(kv[2]), "\"">>
            \o (IF Len(kv) > 2 THEN <<",">> ELSE <<>>) \o <<"\n">>
            \o JSONProperties(SubSeq(kv, 3, Len(kv)))

\* JSON.stringify(result, null, 2)
JSONStringify(kv) ==
    IF kv = <<>> THEN <<"{}">> ELSE <<"{", "\n">> \o JSONProperties(kv) \o <<"}">>

\* typeof result === 'object' ? JSON.stringify(result, null, 2) : String(result)
ResultText(result) ==
    IF result.type = "object" THEN JSONStringify(result.val) ELSE result.val

ReplacementText(toolName, resultText) ==
    <<"<tool-result name=\"">> \o toolName \o <<"\">", "\n">>
        \o resultText \o <<"\n", "</tool-result>">>

ErrorText(toolName, message) ==
    <<"<tool-error name=\"">> \o toolName \o <<"\">", "\n", "Error: ">>
        \o message \o <<"\n", "</tool-error>">>

Occurs(str, searchValue) == IF Contains(str, searchValue) THEN 1 ELSE 0

\* executeToolCalls starting from an empty processed text
ExecuteToolCallsBeginEmpty(t) ==
    /\ pc = "idle"
    /\ pc' = "loop"
    /\ text' = t
    /\ toolCalls' = parseToolCalls(t)
    /\ idx' = 1
    /\ processedText' = <<>>
    /\ results' = <<>>
    /\ substitutions' = <<>>
    /\ UNCHANGED <<written, tools, toolResults, inv, execLog, fnReturned>>

\* const toolCalls = this.parseToolCalls(text); const results = []; let processedText = text
ExecuteToolCallsBegin(t) ==
    /\ pc = "idle"
    /\ pc' = "loop"
    /\ text' = t
    /\ toolCalls' = parseToolCalls(t)
    /\ idx' = 1
    /\ processedText' = t
    /\ results' = <<>>
    /\ substitutions' = <<>>
    /\ UNCHANGED <<written, tools, toolResults, inv, execLog, fnReturned>>

\* the catch block without its results.push
CatchToolErrorWithoutRecord(toolCall, message) ==
    /\ processedText' = StringReplace(processedText, toolCall.originalText,
                                      ErrorText(toolCall.name, message))
    /\ substitutions' = Append(substitutions, Occurs(processedText, toolCall.originalText))
    /\ results' = results
    /\ idx' = idx + 1
    /\ pc' = "loop"

\* the catch block of the loop body
CatchToolError(toolCall, message) ==
    /\ processedText' = StringReplace(processedText, toolCall.originalText,
                                      ErrorText(toolCall.name, message))
    /\ substitutions' = Append(substitutions, Occurs(processedText, toolCall.originalText))
    /\ results' = Append(results, [name |-> toolCall.name,
                                   parameters |-> toolCall.parameters,
                                   error |-> message])
    /\ idx' = idx + 1
    /\ pc' = "loop"

\* a loop turn whose executeTool throws before the tool function is called
LoopCallRejected ==
    /\ pc = "loop" /\ idx <= Len(toolCalls)
    /\ LET toolCall == toolCalls[idx]
           check == executeToolCheck(tools, toolCall.name, toolCall.parameters)
       IN  /\ ~check.ok
           /\ CatchToolError(toolCall, check.message)
    /\ UNCHANGED <<text, toolCalls, written, tools, toolResults, inv, execLog, fnReturned>>

\* a loop turn that calls the tool function and goes on without awaiting it
LoopCallInvokeWithoutAwait ==
    /\ pc = "loop" /\ idx <= Len(toolCalls)
    /\ LET toolCall == toolCalls[idx]
       IN  /\ executeToolCheck(tools, toolCall.name, toolCall.parameters).ok
           /\ execLog' = CallToolFunction(execLog, toolCall.name, toolCall.parameters)
    /\ idx' = idx + 1
    /\ pc' = "loop"
    /\ UNCHANGED <<text, toolCalls, processedText, results, substitutions,
                   written, tools, toolResults, inv, fnReturned>>

\* a loop turn that reaches `await tool.execute(parameters)`
LoopCallInvoke ==
    /\ pc = "loop" /\ idx <= Len(toolCalls)
    /\ LET toolCall == toolCalls[idx]
       IN  /\ executeToolCheck(tools, toolCall.name, toolCall.parameters).ok
           /\ execLog' = CallToolFunction(execLog, toolCall.name, toolCall.parameters)
    /\ pc' = "awaitTool"
    /\ UNCHANGED <<text, toolCalls, idx, processedText, results, substitutions,
                   written, tools, toolResults, inv, fnReturned>>

\* the tool function returns `result`
LoopToolReturns(result) ==
    /\ pc = "awaitTool"
    /\ fnReturned' = Append(fnReturned, result)
    /\ LET toolCall == toolCalls[idx]
       IN  /\ toolResults' = StoreResult(toolResults, toolCall.name,
                                         toolCall.parameters, result)
           /\ results' = Append(results, [name |-> toolCall.name,
                                          parameters |-> toolCall.parameters,
                                          result |-> result])
           /\ processedText' = StringReplace(processedText, toolCall.originalText,
                                   ReplacementText(toolCall.name, ResultText(result)))
           /\ substitutions' = Append(substitutions,
                                      Occurs(processedText, toolCall.originalText))
    /\ idx' = idx + 1
    /\ pc' = "loop"
    /\ UNCHANGED <<text, toolCalls, written, tools, inv, execLog>>

\* the tool function throws an Error with `message`
LoopToolThrows(message) ==
    /\ pc = "awaitTool"
    /\ CatchToolError(toolCalls[idx], message)
    /\ UNCHANGED <<text, toolCalls, written, tools, toolResults, inv, execLog, fnReturned>>

\* a loop that does not end when the calls are used up
ExecuteToolCallsReturnNever ==
    /\ pc = "loop" /\ idx > Len(toolCalls)
    /\ pc' = "loop"
    /\ UNCHANGED <<text, toolCalls, idx, processedText, results, substitutions,
                   written, tools, toolResults, inv, execLog, fnReturned>>

\* return { text: processedText, results }
ExecuteToolCallsReturn ==
    /\ pc = "loop" /\ idx > Len(toolCalls)
    /\ pc' = "done"
    /\ UNCHANGED <<text, toolCalls, idx, processedText, results, substitutions,
                   written, tools, toolResults, inv, execLog, fnReturned>>

----------------------------------------------------------------------------
(* Inputs of the dispatch pass: model replies and tool outcomes *)

MaxSegments == 3

Prose == <<"a">>

\* a call in the layout the system prompt shows, one tag per line
CallReadFile ==
    <<"<tool>", "\n", "<name>", "read-file", "</name>", "\n", "<parameters>", "\n",
      "<param name=\"file_path\">", "f.js", "</param>", "\n", "</parameters>", "\n",
      "</tool>">>

\* write-file without any of its two required parameters
CallWriteFileBare ==
    <<"<tool>", "<name>", "write-file", "</name>", "<parameters>", "</parameters>",
      "</tool>">>

CallUnknown ==
    <<"<tool>", "<name>", "nope", "</name>", "<parameters>", "</parameters>", "</tool>">>

\* a call whose tool name is the text "<tool>"
CallNamedToolTag ==
    <<"<tool>", "<name>", "<tool>", "</name>", "<parameters>", "</parameters>",
      "</tool>">>

\* the end of a call, without its opening tag
TailOfCall ==
    <<"<name>", "nope", "</name>", "<parameters>", "</parameters>", "</tool>">>

\* plain text: it holds no opening tag
TailOfCallThenProse == TailOfCall \o Prose

\* a call that starts with the end of a not-found error block
CallOverErrorTail == <<"<tool>", "' not found", "\n", "</tool-error>">> \o TailOfCall

DispatchFragments ==
    {Prose, CallReadFile, CallWriteFileBare, CallUnknown, CallNamedToolTag,
     TailOfCallThenProse, CallOverErrorTail}

TextsOf(fragments, n) ==
    {Flatten(fs) : fs \in UNION {[1..k -> fragments] : k \in 0..n}}

DispatchTexts == TextsOf(DispatchFragments, MaxSegments)

\* what a tool function may return: a string (also one that holds "$&", and
\* one that holds the text of a call, as a file that is read may), an object
ToolReturnValues ==
    {[type |-> "string", val |-> <<"ok">>],
     [type |-> "string", val |-> <<"$", "&">>],
     [type |-> "string", val |-> CallReadFile],
     [type |-> "object", val |-> <<"content", "ok">>]}

\* messages of the errors tool functions throw; the second one is of a file
\* whose path is $&
ToolErrorMessages == {<<"boom">>, <<"Failed to read file: ", "$", "&">>}

NoToolResults == [n \in {} |-> [parameters |-> NoParams,
                                 result |-> [type |-> "string", val |-> <<>>]]]

\* the names and the parameter maps of the direct calls of executeTool
InvokeNames == {<<"read-file">>, <<"write-file">>, <<"nope">>}

InvokeParams ==
    UNION {[keys -> {<<"f.js">>}] : keys \in SUBSET {"file_path", "content"}}

\* the state after the provider is constructed, with the setting enableTools
InitWith(setting) ==
    /\ pc = "idle"
    /\ text = <<>>
    /\ toolCalls = <<>>
    /\ idx = 1
    /\ processedText = <<>>
    /\ results = <<>>
    /\ substitutions = <<>>
    /\ written = <<>>
    /\ tools = RegisteredTools
    /\ toolResults = NoToolResults
    /\ inv = InvIdle
    /\ execLog = <<>>
    /\ fnReturned = <<>>
    /\ posted = <<>>
    /\ inbox = <<>>
    /\ chatHistory = <<>>
    /\ disabled = {}
    /\ isLoading = FALSE
    /\ turn = TurnIdle
    /\ geminiHistory = <<>>
    /\ handed = NoHandOver
    /\ response = <<>>
    /\ enableTools = setting
    /\ outbox = <<>>
    /\ running = <<>>
    /\ appended = <<>>
    /\ registered = FileToolsRegistrations

\* enableTools has the default of the manifest
InitTools == InitWith(TRUE)

\* one call of the ToolManager: executeToolCalls(text) or executeTool(name, map)
NextTools ==
    \/ \E t \in DispatchTexts :
            inv.st = "idle" /\ ExecuteToolCallsBegin(t) /\ UNCHANGED <<chatVars, auxVars>>
    \/ \E n \in InvokeNames, ps \in InvokeParams :
            pc = "idle" /\ ExecuteToolRejected(n, ps) /\ UNCHANGED <<chatVars, auxVars>>
    \/ \E n \in InvokeNames, ps \in InvokeParams :
            pc = "idle" /\ ExecuteToolInvoke(n, ps) /\ UNCHANGED <<chatVars, auxVars>>
    \/ \E result \in ToolReturnValues :
            ExecuteToolReturns(result) /\ UNCHANGED <<chatVars, auxVars>>
    \/ \E message \in ToolErrorMessages :
            ExecuteToolThrows(message) /\ UNCHANGED <<chatVars, auxVars>>
    \/ LoopCallRejected /\ UNCHANGED <<chatVars, auxVars>>
    \/ LoopCallInvoke /\ UNCHANGED <<chatVars, auxVars>>
    \/ \E result \in ToolReturnValues :
            LoopToolReturns(result) /\ UNCHANGED <<chatVars, auxVars>>
    \/ \E message \in ToolErrorMessages :
            LoopToolThrows(message) /\ UNCHANGED <<chatVars, auxVars>>
    \/ ExecuteToolCallsReturn /\ UNCHANGED <<chatVars, auxVars>>

SpecTools == InitTools /\ [][NextTools]_vars

----------------------------------------------------------------------------
(* Properties of the dispatch pass *)

HasResult(r) == "result" \in DOMAIN r

HasError(r) == "error" \in DOMAIN r

\* the block that stands for a record, with the result or message verbatim
BlockOf(r) ==
    IF HasError(r) THEN ErrorText(r.name, r.error)
    ELSE ReplacementText(r.name, ResultText(r.result))

\* the raw text with the span of the k-th match replaced, at the span's own
\* position, by the block of the k-th record
RECURSIVE Splice(_, _, _, _, _)
Splice(t, ms, rs, k, from) ==
    IF k > Len(ms) THEN SubSeq(t, from, Len(t))
    ELSE SubSeq(t, from, ms[k].start - 1) \o BlockOf(rs[k])
            \o Splice(t, ms, rs, k + 1, ms[k].end + 1)

\* the pieces of the raw text outside the matched spans, in order
RECURSIVE Outside(_, _, _, _)
Outside(t, ms, k, from) ==
    IF k > Len(ms) THEN <<SubSeq(t, from, Len(t))>>
    ELSE <<SubSeq(t, from, ms[k].start - 1)>> \o Outside(t, ms, k + 1, ms[k].end + 1)

\* the pieces occur in s one after the other, without overlap
RECURSIVE InOrder(_, _, _)
InOrder(pieces, s, from) ==
    IF pieces = <<>> THEN TRUE
    ELSE LET p == IndexOf(s, Head(pieces), from)
         IN  p # 0 /\ InOrder(Tail(pieces), s, p + Len(Head(pieces)))

\* C1: when executeToolCalls returns, the processed text is the raw text in
\* which the span of the k-th parsed call is replaced at its own position by
\* the k-th call's own result or error block, all other characters unchanged.
C1_SpansReplacedInPlace ==
    pc = "done" =>
        /\ Len(results) = Len(ToolCallMatches(text, 1))
        /\ processedText = Splice(text, ToolCallMatches(text, 1), results, 1, 1)

C3_FailureDoesNotStopPass ==
    (pc = "done" /\ \E k \in 1..Len(results) : HasError(results[k])) =>
        /\ Len(results) = Len(parseToolCalls(text))
        /\ InOrder(Outside(text, ToolCallMatches(text, 1), 1, 1), processedText, 1)

\* C10: a successful call has its text replaced by the result block that
\* holds the serialized result verbatim.
C10_ResultBlockVerbatim ==
    [][(pc = "awaitTool" /\ Len(results') > Len(results)
            /\ HasResult(results'[Len(results')]))
        => LET toolCall == toolCalls[idx]
               r == results'[Len(results')]
           IN  \E p \in 1..(Len(processedText) - Len(toolCall.originalText) + 1) :
                  /\ SubSeq(processedText, p, p + Len(toolCall.originalText) - 1)
                        = toolCall.originalText
                  /\ processedText' =
                        SubSeq(processedText, 1, p - 1)
                          \o ReplacementText(toolCall.name, ResultText(r.result))
                          \o SubSeq(processedText, p + Len(toolCall.originalText),
                                    Len(processedText))]_vars

\* an opening <tool> tag with a closing </tool> tag after it
HasToolBlock(t) ==
    \E i, j \in 1..Len(t) : i < j /\ t[i] = "<tool>" /\ t[j] = "</tool>"

C20_CallsRunOneAtATime ==
    [][(pc = "loop" /\ inv' = inv /\ Len(execLog') = Len(execLog) + 1)
        => /\ Len(results) = idx - 1
           /\ execLog'[Len(execLog')] = [name |-> toolCalls[idx].name,
                                         parameters |-> toolCalls[idx].parameters]
           /\ pc' = "awaitTool" /\ idx' = idx]_vars

C20_Witness ==
    /\ pc = "awaitTool" /\ idx = 2
    /\ Len(results) = 1 /\ HasResult(results[1])
    /\ Len(execLog) = 2

\* C26: the cache of last results holds one entry per tool name, with the
\* parameters and the result of the most recent invocation of that tool that
\* ran successfully; an invocation that fails (unknown tool, missing required
\* parameter, tool function throwing) leaves the cache as it is.
C26_CacheHoldsLastSuccess ==
    [][IF Len(fnReturned') > Len(fnReturned)
       THEN LET call == IF inv' # inv
                        THEN [name |-> inv.toolName, parameters |-> inv.parameters]
                        ELSE [name |-> toolCalls[idx].name,
                              parameters |-> toolCalls[idx].parameters]
            IN  toolResults' =
                    [n \in DOMAIN toolResults \cup {call.name} |->
                        IF n = call.name
                        THEN [parameters |-> call.parameters,
                              result |-> fnReturned'[Len(fnReturned')]]
                        ELSE toolResults[n]]
       ELSE toolResults' = toolResults]_vars

C26_Witness ==
    /\ Len(execLog) = 2 /\ Len(fnReturned) = 2
    /\ execLog[1].name = execLog[2].name
    /\ fnReturned[1] # fnReturned[2]
    /\ DOMAIN toolResults = {execLog[2].name}
    /\ toolResults[execLog[2].name].result = fnReturned[2]
    /\ Len(results) = 3 /\ HasError(results[3])

\* C11: a call that fails with message M has its text replaced by the error
\* block <tool-error name="NAME">, newline, "Error: M", newline,
\* </tool-error>, and its record holds the name, the parameters and error M,
\* with no result.
C11_ErrorBlockForm ==
    [][(pc \in {"loop", "awaitTool"} /\ Len(results') > Len(results)
            /\ HasError(results'[Len(results')]))
        => LET toolCall == toolCalls[idx]
               r == results'[Len(results')]
           IN  /\ r = [name |-> toolCall.name, parameters |-> toolCall.parameters,
                       error |-> r.error]
               /\ \E p \in 1..(Len(processedText) - Len(toolCall.originalText) + 1) :
                     /\ SubSeq(processedText, p, p + Len(toolCall.originalText) - 1)
                           = toolCall.originalText
                     /\ processedText' =
                           SubSeq(processedText, 1, p - 1)
                             \o <<"<tool-error name=\"">> \o r.name
                             \o <<"\">", "\n", "Error: ">> \o r.error
                             \o <<"\n", "</tool-error>">>
                             \o SubSeq(processedText, p + Len(toolCall.originalText),
                                       Len(processedText))]_vars

\* the required parameters of a registered tool that a map lacks
AbsentRequired(reg, toolName, parameters) ==
    {reg[toolName].required[i] : i \in 1..Len(reg[toolName].required)}
        \ DOMAIN parameters

\* C5: executeTool on a registered tool with required parameters absent
\* fails with a message that names every absent required parameter.
C5_AllMissingNamed ==
    /\ (inv.st # "idle" /\ inv.toolName \in DOMAIN tools
            /\ AbsentRequired(tools, inv.toolName, inv.parameters) # {})
        => /\ inv.st = "threw"
           /\ \A q \in AbsentRequired(tools, inv.toolName, inv.parameters) :
                 Contains(inv.message, <<q>>)
    /\ \A k \in 1..Len(results) :
          (results[k].name \in DOMAIN tools
              /\ AbsentRequired(tools, results[k].name, results[k].parameters) # {})
          => /\ HasError(results[k])
             /\ \A q \in AbsentRequired(tools, results[k].name, results[k].parameters) :
                   Contains(results[k].error, <<q>>)

\* C6: executeTool on an unregistered name fails with a message that holds
\* the name and "not found", no tool function is called, and in a dispatch
\* pass the processed text holds the tool-error block of the call.
C6_UnknownToolSurfaced ==
    /\ (inv.st # "idle" /\ inv.toolName \notin DOMAIN tools)
        => /\ inv.st = "threw"
           /\ Contains(inv.message, inv.toolName)
           /\ Contains(inv.message, <<"' not found">>)
           /\ execLog = <<>>
    /\ \A k \in 1..Len(results) :
          results[k].name \notin DOMAIN tools
          => /\ HasError(results[k])
             /\ Contains(results[k].error, results[k].name)
             /\ Contains(results[k].error, <<"' not found">>)
             /\ \A e \in 1..Len(execLog) : execLog[e].name # results[k].name
             /\ pc = "done" =>
                   Contains(processedText, ErrorText(results[k].name, results[k].error))

\* C7: executeTool on a registered tool with all required parameters present
\* calls the tool function once, with the given map, and returns its result.
C7_InvokedOnceWithGivenMap ==
    /\ (inv.st # "idle" /\ inv.toolName \in DOMAIN tools
            /\ AbsentRequired(tools, inv.toolName, inv.parameters) = {})
        => /\ execLog = <<[name |-> inv.toolName, parameters |-> inv.parameters]>>
           /\ inv.st = "returned" => fnReturned = <<inv.value>>
           /\ inv.st = "threw" => fnReturned = <<>>
    /\ LET accepted == SelectSeq(results,
                LAMBDA r : r.name \in DOMAIN tools
                             /\ AbsentRequired(tools, r.name, r.parameters) = {})
           returned == SelectSeq(results, HasResult)
       IN  /\ pc \in {"loop", "done"} =>
                 execLog = [k \in 1..Len(accepted) |->
                              [name |-> accepted[k].name,
                               parameters |-> accepted[k].parameters]]
           /\ pc \in {"loop", "done"} =>
                 fnReturned = [k \in 1..Len(returned) |-> returned[k].result]

C7_Witness ==
    /\ inv.st = "returned"
    /\ inv.toolName = <<"write-file">>
    /\ DOMAIN inv.parameters = {"file_path", "content"}
    /\ inv.value = [type |-> "object", val |-> <<"content", "ok">>]

----------------------------------------------------------------------------
(* Inputs of parseToolCalls *)

\* white space around the name and around the parameter value
BlockPadded ==
    <<"<tool>", "<name>", " ", "read-file", " ", "</name>", "<parameters>",
      "<param name=\"file_path\">", "\n", "f.js", "\n", "</param>", "</parameters>",
      "</tool>">>

BlockTwoParams ==
    <<"<tool>", "<name>", "write-file", "</name>", "<parameters>",
      "<param name=\"file_path\">", "f.js", "</param>",
      "<param name=\"content\">", "hi", "</param>", "</parameters>", "</tool>">>

\* the block of the feature test: <n> where <name> should open
MalformedNoName ==
    <<"<tool>", "<n>", "read-file", "</name>", "<parameters>", "</parameters>",
      "</tool>">>

MalformedNoParameters == <<"<tool>", "<name>", "read-file", "</name>", "</tool>">>

\* a call that was never closed
UnterminatedCall == <<"<tool>", "<name>", "nope", "</name>">>

\* the example of getDefaultSystemPrompt: "to read a file, you can use:"
PromptFormatCall ==
    <<"<tool>", "\n", "<n>", "read-file", "</n>", "\n", "<parameters>", "\n",
      "<param name=\"file_path\">", "path/to/file.js", "</param>", "\n",
      "</parameters>", "\n", "</tool>">>

WellFormedBlocks == {CallReadFile, BlockPadded, CallWriteFileBare, BlockTwoParams}

MalformedBlocks == {MalformedNoName, MalformedNoParameters}

ParseFragments ==
    WellFormedBlocks \cup MalformedBlocks \cup {Prose, UnterminatedCall, PromptFormatCall}

ParsePieces == UNION {[1..k -> ParseFragments] : k \in 0..MaxSegments}

\* what each well-formed block says, read off its text
BlockSays(b) ==
    CASE b = CallReadFile ->
            [name |-> <<"read-file">>, parameters |-> [file_path |-> <<"f.js">>],
             originalText |-> b]
      [] b = BlockPadded ->
            [name |-> <<"read-file">>, parameters |-> [file_path |-> <<"f.js">>],
             originalText |-> b]
      [] b = CallWriteFileBare ->
            [name |-> <<"write-file">>, parameters |-> NoParams, originalText |-> b]
      [] b = BlockTwoParams ->
            [name |-> <<"write-file">>,
             parameters |-> [file_path |-> <<"f.js">>, content |-> <<"hi">>],
             originalText |-> b]

IsWellFormed(b) == b \in WellFormedBlocks

IsNotMalformed(b) == b \notin MalformedBlocks

ExpectedCalls(pieces) ==
    LET blocks == SelectSeq(pieces, IsWellFormed)
    IN  [k \in 1..Len(blocks) |-> BlockSays(blocks[k])]

InitParse == InitTools

NextParse ==
    /\ \E pieces \in ParsePieces : ParseToolCalls(pieces)
    /\ UNCHANGED <<chatVars, auxVars>>

SpecParse == InitParse /\ [][NextParse]_vars

\* C28: a tool call written in the format the default system prompt gives
\* to the model is parsed into one ToolCall with the stated name and
\* parameters.
C28_PromptFormatParses ==
    (pc = "parsed" /\ written = <<PromptFormatCall>>)
        => toolCalls = << [name |-> <<"read-file">>,
                           parameters |-> [file_path |-> <<"path/to/file.js">>],
                           originalText |-> PromptFormatCall] >>

\* C27: the spans parseToolCalls matches do not overlap, and each runs from
\* a <tool> tag to the first </tool> after it, that tag being the nearest
\* <tool> before the closing tag: with two openings before one closing tag
\* the span starts at the second opening.
C27_SpansStartAtNearestOpening ==
    LET ms == ToolCallMatches(text, 1)
    IN  /\ \A k \in 1..(Len(ms) - 1) : ms[k].end < ms[k + 1].start
        /\ \A k \in 1..Len(toolCalls) :
              LET o == toolCalls[k].originalText
              IN  /\ o[1] = "<tool>" /\ o[Len(o)] = "</tool>"
                  /\ \A i \in 1..(Len(o) - 1) : o[i] # "</tool>"
                  /\ \A i \in 2..Len(o) : o[i] # "<tool>"

\* C8: parseToolCalls returns one ToolCall per well-formed block, in the
\* order of the blocks, with the block's name, its parameters with trimmed
\* values, and the block's text as source span.
C8_OneCallPerWellFormedBlock ==
    pc = "parsed" => toolCalls = ExpectedCalls(written)

\* C9: a block without <name> or without <parameters> yields no ToolCall and
\* leaves the ToolCalls of the other blocks as they are without it.
C9_MalformedBlockSkipped ==
    pc = "parsed" =>
        /\ \A k \in 1..Len(toolCalls) : \A m \in MalformedBlocks :
              ~Contains(toolCalls[k].originalText, m)
        /\ toolCalls = parseToolCalls(Flatten(SelectSeq(written, IsNotMalformed)))

----------------------------------------------------------------------------
(* The chat view: processMarkdown, updateChat, handleToolCall, sendMessage *)

\* the first position from i on that holds no white space (\s*)
SkipWhiteSpace(s, i) ==
    IF \E j \in i..Len(s) : ~IsWhiteSpace(s[j])
    THEN Min({j \in i..Len(s) : ~IsWhiteSpace(s[j])})
    ELSE Len(s) + 1

At(s, i) == IF i \in 1..Len(s) THEN s[i] ELSE ""

\* toolCallRegex of processMarkdown anchored at position i: the pairs
\* <<position of </name>, position of </parameters>>> of its matches
ViewToolCallAt(s, i) ==
    LET a == SkipWhiteSpace(s, i + 1)
    IN  IF s[i] # "<tool>" \/ At(s, a) # "<name>" THEN {}
        ELSE {jk \in {j \in (a+1)..Len(s) : s[j] = "</name>"}
                       \X {k \in (a+1)..Len(s) : s[k] = "</parameters>"} :
                 /\ \A x \in (a+1)..(jk[1]-1) : s[x] # "\n"
                 /\ At(s, SkipWhiteSpace(s, jk[1] + 1)) = "<parameters>"
                 /\ jk[2] > SkipWhiteSpace(s, jk[1] + 1)
                 /\ At(s, SkipWhiteSpace(s, jk[2] + 1)) = "</tool>"}

\* toolCallRegex.exec from position `from`: leftmost match, lazy groups
ViewToolCallExec(s, from) ==
    LET starts == {i \in from..Len(s) : ViewToolCallAt(s, i) # {}}
    IN  IF starts = {}
        THEN [found |-> FALSE, start |-> 0, end |-> 0, toolName |-> <<>>,
              parametersContent |-> <<>>]
        ELSE LET i == Min(starts)
                 a == SkipWhiteSpace(s, i + 1)
                 matches == ViewToolCallAt(s, i)
                 j == Min({jk[1] : jk \in matches})
                 k == Min({jk[2] : jk \in {x \in matches : x[1] = j}})
             IN  [found |-> TRUE, start |-> i, end |-> SkipWhiteSpace(s, k + 1),
                  toolName |-> SubSeq(s, a + 1, j - 1),
                  parametersContent |->
                      SubSeq(s, SkipWhiteSpace(s, j + 1) + 1, k - 1)]

\* the buttons processMarkdown writes, in order: data-tool and data-parameters
RECURSIVE ViewToolCalls(_, _)
ViewToolCalls(s, from) ==
    LET m == ViewToolCallExec(s, from)
    IN  IF ~m.found THEN <<>>
        ELSE << [toolName |-> m.toolName,
                 parameters |-> ParseParams(m.parametersContent, 1, NoParams)] >>
             \o ViewToolCalls(s, m.end + 1)

\* the n-th tool-call <div> with its Execute button
ButtonTokens ==
    <<"<button 1>", "<button 2>", "<button 3>", "<button 4>", "<button 5>",
      "<button 6>">>

\* text.replace(toolCallRegex, ...): every match becomes its <div>
RECURSIVE RenderToolCalls(_, _, _)
RenderToolCalls(s, from, n) ==
    LET m == ViewToolCallExec(s, from)
    IN  IF ~m.found THEN SubSeq(s, from, Len(s))
        ELSE SubSeq(s, from, m.start - 1) \o <<ButtonTokens[n]>>
             \o RenderToolCalls(s, m.end + 1, n + 1)

\* the lexemes that hold a double quote
HasQuote(t) ==
    t \in {"<param name=\"file_path\">", "<param name=\"content\">",
           "<tool-result name=\"", "<tool-error name=\"", "\">"}

\* toolResultRegex / toolErrorRegex .exec from position `from`:
\* open name="([^"]+)"> ... first close after it
BlockExec(s, open, close, from) ==
    LET nameEnd(i) ==
            IF \E q \in (i+1)..Len(s) : HasQuote(s[q])
            THEN Min({q \in (i+1)..Len(s) : HasQuote(s[q])}) ELSE 0
        starts == {i \in from..Len(s) :
                      /\ s[i] = open
                      /\ nameEnd(i) > i + 1
                      /\ s[nameEnd(i)] = "\">"
                      /\ \E j \in (nameEnd(i)+1)..Len(s) : s[j] = close}
    IN  IF starts = {} THEN [found |-> FALSE, start |-> 0, end |-> 0]
        ELSE LET i == Min(starts)
             IN  [found |-> TRUE, start |-> i,
                  end |-> Min({j \in (nameEnd(i)+1)..Len(s) : s[j] = close})]

\* processedText.replace(toolResultRegex, ...): every match becomes a <div>
\* that shows its content escaped, as text
RECURSIVE RenderBlocks(_, _, _, _, _)
RenderBlocks(s, open, close, div, from) ==
    LET m == BlockExec(s, open, close, from)
    IN  IF ~m.found THEN SubSeq(s, from, Len(s))
        ELSE SubSeq(s, from, m.start - 1) \o <<div>>
             \o RenderBlocks(s, open, close, div, m.end + 1)

\* processMarkdown(text): the result as far as Execute buttons go (the later
\* steps rewrite code fences and line ends, which leave a <div> as it is)
processMarkdown(t) ==
    RenderBlocks(
        RenderBlocks(RenderToolCalls(t, 1, 1),
                     "<tool-result name=\"", "</tool-result>",
                     "<div class=\"tool-result\">", 1),
        "<tool-error name=\"", "</tool-error>", "<div class=\"tool-error\">", 1)

\* the Execute buttons of a rendered assistant message that are elements
LiveButtons(content) ==
    LET html == processMarkdown(content)
    IN  {n \in 1..Len(ButtonTokens) :
            \E i \in 1..Len(html) : html[i] = ButtonTokens[n]}

\* the user acts on the view while the assistant is at rest
AtRest == inbox = <<>> /\ turn.st = "idle" /\ inv.st = "idle" /\ pc = "idle"

MaxTurns == 1

SentMessages == SelectSeq(posted, LAMBDA m : m.command = "sendMessage")

\* sendMessage(): the Send button or the Enter key, with `userText` typed
SendMessage(userText) ==
    /\ AtRest
    /\ Len(SentMessages) < MaxTurns
    /\ userText # <<>> /\ ~isLoading
    /\ LET message == [command |-> "sendMessage", text |-> userText]
       IN  /\ posted' = Append(posted, message)
           /\ inbox' = Append(inbox, message)
    /\ UNCHANGED <<passVars, tools, toolResults, inv, execLog, fnReturned,
                   chatHistory, disabled, isLoading, turn, geminiHistory>>

\* the click listener handleToolCall puts on the n-th Execute button of the
\* m-th message; data-tool and data-parameters hold the escaped name and the
\* escaped JSON of the map, which dataset and JSON.parse read back
ClickExecute(m, n) ==
    /\ AtRest
    /\ m \in 1..Len(chatHistory)
    /\ chatHistory[m].role = "assistant"
    /\ n \in LiveButtons(chatHistory[m].content)
    /\ <<m, n>> \notin disabled
    /\ disabled' = disabled \cup {<<m, n>>}
    /\ LET button == ViewToolCalls(chatHistory[m].content, 1)[n]
           message == [command |-> "executeTool", toolName |-> button.toolName,
                       parameters |-> button.parameters]
       IN  /\ posted' = Append(posted, message)
           /\ inbox' = Append(inbox, message)
    /\ UNCHANGED <<passVars, tools, toolResults, inv, execLog, fnReturned,
                   chatHistory, isLoading, turn, geminiHistory>>

----------------------------------------------------------------------------
(* NyxnWebviewProvider and GeminiService.generateContent *)

maxHistoryLength == 10

\* _buildChatHistory() with slice(0, maxHistoryLength)
buildChatHistoryFromTheFront(history) ==
    IF Len(history) > maxHistoryLength
    THEN SubSeq(history, 1, maxHistoryLength)
    ELSE history

\* _buildChatHistory(): the history cut to its last maxHistoryLength entries
buildChatHistory(history) ==
    IF Len(history) > maxHistoryLength
    THEN SubSeq(history, Len(history) - maxHistoryLength + 1, Len(history))
    ELSE history

\* _buildStructuredPrompt(prompt, context) for a context without a current
\* file, related files or project structure
buildStructuredPrompt(prompt) == <<"User request: ">> \o prompt \o <<"\n">>

\* the third argument of generateContent in _handleUserMessage
useTools == TRUE

\* getAvailableTools(): name and metadata of every registered tool
getAvailableTools(reg) ==
    {[name |-> toolName, required |-> reg[toolName].required] : toolName \in DOMAIN reg}

\* case 'sendMessage': _handleUserMessage(text) up to the await of
\* chat.sendMessage(fullPrompt) in generateContent
HandleSendMessage ==
    /\ inbox # <<>> /\ Head(inbox).command = "sendMessage"
    /\ turn.st = "idle"
    /\ inbox' = Tail(inbox)
    /\ chatHistory' = Append(chatHistory, [role |-> "user", content |-> Head(inbox).text])
    /\ disabled' = {}
    /\ isLoading' = TRUE
    /\ geminiHistory' = buildChatHistory(geminiHistory)
    /\ handed' = [history |-> buildChatHistory(geminiHistory),
                  catalog |-> IF useTools THEN <<getAvailableTools(tools)>> ELSE <<>>]
    /\ turn' = [st |-> "awaitModel", prompt |-> buildStructuredPrompt(Head(inbox).text)]
    /\ UNCHANGED <<passVars, tools, toolResults, inv, execLog, fnReturned, posted,
                   response, enableTools, outbox, running, appended, registered>>

\* chat.sendMessage resolves with `responseText`: both messages are pushed
\* and, useTools and toolManager being set, executeToolCalls is called
ModelReplies(responseText) ==
    /\ turn.st = "awaitModel"
    /\ geminiHistory' = geminiHistory \o
            << [role |-> "user", text |-> turn.prompt],
               [role |-> "model", text |-> responseText] >>
    /\ appended' = appended \o
            << [role |-> "user", text |-> turn.prompt],
               [role |-> "model", text |-> responseText] >>
    /\ useTools /\ ExecuteToolCallsBegin(responseText)
    /\ turn' = [turn EXCEPT !.st = "tools"]
    /\ UNCHANGED <<posted, inbox, chatHistory, disabled, isLoading,
                   handed, response, enableTools, outbox, running, registered>>

\* the catch block of generateContent returning an empty text and an empty
\* list of tool results next to the error
ModelFailsWithText(message) ==
    /\ turn.st = "awaitModel"
    /\ isLoading' = FALSE
    /\ chatHistory' = Append(chatHistory,
            [role |-> "assistant",
             content |-> <<"Error: ", "Error calling Gemini API: ">> \o message])
    /\ disabled' = {}
    /\ response' = << [error |-> <<"Error calling Gemini API: ">> \o message,
                       text |-> <<>>, toolResults |-> <<>>] >>
    /\ turn' = TurnIdle
    /\ UNCHANGED <<passVars, tools, toolResults, inv, execLog, fnReturned,
                   posted, inbox, geminiHistory,
                   handed, enableTools, outbox, running, appended, registered>>

\* chat.sendMessage rejects: generateContent returns {error}, which
\* _handleUserMessage shows as the assistant's message
ModelFails(message) ==
    /\ turn.st = "awaitModel"
    /\ isLoading' = FALSE
    /\ chatHistory' = Append(chatHistory,
            [role |-> "assistant",
             content |-> <<"Error: ", "Error calling Gemini API: ">> \o message])
    /\ disabled' = {}
    /\ response' = << [error |-> <<"Error calling Gemini API: ">> \o message] >>
    /\ turn' = TurnIdle
    /\ UNCHANGED <<passVars, tools, toolResults, inv, execLog, fnReturned,
                   posted, inbox, geminiHistory,
                   handed, enableTools, outbox, running, appended, registered>>

\* generateContent putting the processed text in the place of the raw text
TurnCompletesReplacesRaw ==
    /\ turn.st = "tools" /\ pc = "done"
    /\ geminiHistory' =
            IF Len(results) > 0
            THEN Append(SubSeq(geminiHistory, 1, Len(geminiHistory) - 1),
                        [role |-> "model", text |-> processedText])
            ELSE geminiHistory
    /\ appended' =
            IF Len(results) > 0
            THEN Append(appended, [role |-> "model", text |-> processedText])
            ELSE appended
    /\ response' =
            << [text |-> processedText, originalText |-> text, toolResults |-> results] >>
    /\ isLoading' = FALSE
    /\ chatHistory' = Append(chatHistory,
            [role |-> "assistant", content |-> processedText])
    /\ disabled' = {}
    /\ turn' = TurnIdle
    /\ pc' = "idle"
    /\ UNCHANGED <<text, toolCalls, idx, processedText, results, substitutions,
                   written, tools, toolResults, inv, execLog, fnReturned,
                   posted, inbox, handed, enableTools, outbox, running, registered>>

\* executeToolCalls has returned: generateContent returns the processed
\* text and _handleUserMessage pushes it and updates the view
TurnCompletes ==
    /\ turn.st = "tools" /\ pc = "done"
    /\ geminiHistory' =
            IF Len(results) > 0
            THEN Append(geminiHistory, [role |-> "model", text |-> processedText])
            ELSE geminiHistory
    /\ appended' =
            IF Len(results) > 0
            THEN Append(appended, [role |-> "model", text |-> processedText])
            ELSE appended
    /\ response' =
            << [text |-> processedText, originalText |-> text, toolResults |-> results] >>
    /\ isLoading' = FALSE
    /\ chatHistory' = Append(chatHistory,
            [role |-> "assistant", content |-> processedText])
    /\ disabled' = {}
    /\ turn' = TurnIdle
    /\ pc' = "idle"
    /\ UNCHANGED <<text, toolCalls, idx, processedText, results, substitutions,
                   written, tools, toolResults, inv, execLog, fnReturned,
                   posted, inbox, handed, enableTools, outbox, running, registered>>

\* case 'executeTool': toolManager.executeTool(toolName, parameters) throws
\* before the tool function is called
HandleExecuteToolRejected ==
    /\ inbox # <<>> /\ Head(inbox).command = "executeTool"
    /\ ExecuteToolRejected(Head(inbox).toolName, Head(inbox).parameters)
    /\ inbox' = Tail(inbox)
    /\ UNCHANGED <<posted, chatHistory, disabled, isLoading, turn, geminiHistory>>

\* case 'executeTool': toolManager.executeTool(toolName, parameters) reaches
\* the tool function
HandleExecuteToolInvoke ==
    /\ inbox # <<>> /\ Head(inbox).command = "executeTool"
    /\ ExecuteToolInvoke(Head(inbox).toolName, Head(inbox).parameters)
    /\ inbox' = Tail(inbox)
    /\ UNCHANGED <<posted, chatHistory, disabled, isLoading, turn, geminiHistory>>

\* case 'executeTool': the result or the error is posted to the view, which
\* shows it in the tool panel or as an error line
PostToolOutcome ==
    /\ inv.st \in {"returned", "threw"}
    /\ inv' = InvIdle
    /\ UNCHANGED <<passVars, tools, toolResults, execLog, fnReturned, chatVars>>

MaxClears == 1

ClearMessages == SelectSeq(posted, LAMBDA m : m.command = "clearHistory")

\* the click listener of the Clear button, with the confirm dialog accepted
ClickClear ==
    /\ inbox = <<>>
    /\ Len(ClearMessages) < MaxClears
    /\ posted' = Append(posted, [command |-> "clearHistory"])
    /\ inbox' = Append(inbox, [command |-> "clearHistory"])
    /\ UNCHANGED <<passVars, tools, toolResults, inv, execLog, fnReturned,
                   chatHistory, disabled, isLoading, turn, geminiHistory, auxVars>>

\* case 'clearHistory' without geminiService.clearChatHistory()
HandleClearHistoryOfTheViewOnly ==
    /\ inbox # <<>> /\ Head(inbox).command = "clearHistory"
    /\ inbox' = Tail(inbox)
    /\ chatHistory' = <<>>
    /\ geminiHistory' = geminiHistory
    /\ appended' = Append(appended, [role |-> "cleared", text |-> <<turn.st>>])
    /\ disabled' = {}
    /\ UNCHANGED <<passVars, tools, toolResults, inv, execLog, fnReturned,
                   posted, isLoading, turn,
                   handed, response, enableTools, outbox, running, registered>>

\* case 'clearHistory': the provider empties its chat log, the service
\* empties its history (clearChatHistory) and the view is updated
HandleClearHistory ==
    /\ inbox # <<>> /\ Head(inbox).command = "clearHistory"
    /\ inbox' = Tail(inbox)
    /\ chatHistory' = <<>>
    /\ geminiHistory' = <<>>
    /\ appended' = Append(appended, [role |-> "cleared", text |-> <<turn.st>>])
    /\ disabled' = {}
    /\ UNCHANGED <<passVars, tools, toolResults, inv, execLog, fnReturned,
                   posted, isLoading, turn,
                   handed, response, enableTools, outbox, running, registered>>

----------------------------------------------------------------------------
(* The assistant: the view, the provider, the service and the tools *)

UserTexts == {<<"hi">>, <<"read f.js">>}

\* replies of the model: plain text, one call, two calls that are the same,
\* and a call followed by the call of a tool that is not registered
ReplyTexts ==
    {Prose, CallReadFile, CallUnknown, Prose \o CallReadFile \o Prose,
     CallReadFile \o CallReadFile, CallReadFile \o CallUnknown}

ReplyToolValues ==
    {[type |-> "string", val |-> <<"ok">>],
     [type |-> "string", val |-> CallUnknown \o CallReadFile]}

ModelErrorMessages == {<<"fetch failed">>}

ReplyToolErrors == {<<"boom">>}

Init == \E setting \in BOOLEAN : InitWith(setting)

Next ==
    \/ \E userText \in UserTexts : SendMessage(userText) /\ UNCHANGED auxVars
    \/ \E m \in 1..Len(chatHistory), n \in 1..Len(ButtonTokens) : ClickExecute(m, n) /\ UNCHANGED auxVars
    \/ HandleSendMessage
    \/ \E responseText \in ReplyTexts : ModelReplies(responseText)
    \/ \E message \in ModelErrorMessages : ModelFails(message)
    \/ LoopCallRejected /\ UNCHANGED <<chatVars, auxVars>>
    \/ LoopCallInvoke /\ UNCHANGED <<chatVars, auxVars>>
    \/ \E result \in ReplyToolValues : LoopToolReturns(result) /\ UNCHANGED <<chatVars, auxVars>>
    \/ \E message \in ReplyToolErrors : LoopToolThrows(message) /\ UNCHANGED <<chatVars, auxVars>>
    \/ ExecuteToolCallsReturn /\ UNCHANGED <<chatVars, auxVars>>
    \/ TurnCompletes
    \/ HandleExecuteToolRejected /\ UNCHANGED auxVars
    \/ HandleExecuteToolInvoke /\ UNCHANGED auxVars
    \/ \E result \in ReplyToolValues : ExecuteToolReturns(result) /\ UNCHANGED <<chatVars, auxVars>>
    \/ \E message \in ReplyToolErrors : ExecuteToolThrows(message) /\ UNCHANGED <<chatVars, auxVars>>
    \/ PostToolOutcome /\ UNCHANGED auxVars

Spec == Init /\ [][Next]_vars

\* C4: every execution of a tool function is preceded by an executeTool
\* message that the chat view sent for that tool and those parameters.
C4_ToolsRunOnlyOnExecuteClick ==
    \A e \in 1..Len(execLog) :
        \E m \in 1..Len(posted) :
            posted[m] = [command |-> "executeTool", toolName |-> execLog[e].name,
                         parameters |-> execLog[e].parameters]

\* the backend call settles: chat.sendMessage resolves or rejects
BackendSettles ==
    \/ \E responseText \in ReplyTexts : ModelReplies(responseText)
    \/ \E message \in ModelErrorMessages : ModelFails(message)

\* the tool function called by the dispatch pass settles
ToolSettles ==
    /\ \/ \E result \in ReplyToolValues : LoopToolReturns(result)
       \/ \E message \in ReplyToolErrors : LoopToolThrows(message)
    /\ UNCHANGED <<chatVars, auxVars>>

\* the code of generateContent and executeToolCalls between two awaits,
\* which the event loop runs once the awaited promise has settled
TurnContinues ==
    \/ (LoopCallRejected \/ LoopCallInvoke \/ ExecuteToolCallsReturn)
            /\ UNCHANGED <<chatVars, auxVars>>
    \/ TurnCompletes

SpecLive ==
    Spec /\ WF_vars(BackendSettles) /\ WF_vars(ToolSettles) /\ WF_vars(TurnContinues)

\* C15: provided the backend call and every tool function settle, every call
\* of generateContent returns, with {text, originalText, toolResults} or
\* with {error}.
C15_GenerateContentReturns ==
    /\ [](\A i \in 1..Len(response) :
            DOMAIN response[i] \in {{"error"}, {"text", "originalText", "toolResults"}})
    /\ (turn.st = "awaitModel") ~> (turn.st = "idle" /\ Len(response) = 1)

C15_Witness ==
    /\ turn.st = "idle"
    /\ Len(response) = 1
    /\ DOMAIN response[1] = {"text", "originalText", "toolResults"}
    /\ Len(response[1].toolResults) = 2
    /\ \E k \in 1..2 : HasError(response[1].toolResults[k])

\* C16: with the setting enableTools false no tool catalog is added to the
\* system instructions, no tool function is executed by a turn, and the text
\* returned is the raw text of the model.
C16_ToolsOffMeansNoTools ==
    enableTools = FALSE
        => /\ handed.catalog = <<>>
           /\ turn.st # "tools"
           /\ \A i \in 1..Len(response) :
                "text" \in DOMAIN response[i]
                    => /\ response[i].text = response[i].originalText
                       /\ response[i].toolResults = <<>>

\* C21: when the model returns its raw text, the history gains (user, the
\* text the user sent) followed by (model, raw text), also when a context
\* was supplied for the turn.
C21_HistoryHoldsOriginalTexts ==
    \A i \in 1..Len(appended) :
        appended[i].role = "user"
            => /\ \E m \in 1..Len(SentMessages) : appended[i].text = SentMessages[m].text
               /\ i < Len(appended)
               /\ appended[i + 1].role = "model"
               /\ turn.st = "tools" => appended[i + 1].text = text

\* C25: when generateContent returns an error, the user message of the turn
\* has been appended to the history and stays, and nothing else of the turn
\* is in the history.
C25_FailedTurnKeepsUserEntry ==
    (Len(response) = 1 /\ "error" \in DOMAIN response[1])
        => /\ geminiHistory # <<>>
           /\ geminiHistory[Len(geminiHistory)].role = "user"

\* C22: a successful turn appends a further (model, processed text) entry
\* exactly when the dispatch pass has at least one record, after the raw
\* entry and not in its place: the history grows by 3 entries when the reply
\* held a parsed tool call and by 2 otherwise.
C22_ProcessedTurnWhenRecords ==
    [][(turn.st = "tools" /\ turn'.st = "idle")
        => LET raw == << [role |-> "user", text |-> turn.prompt],
                         [role |-> "model", text |-> text] >>
               extra == IF Len(results) > 0
                        THEN << [role |-> "model", text |-> processedText] >>
                        ELSE <<>>
           IN  /\ geminiHistory' = handed.history \o raw \o extra
               /\ (Len(results) > 0) <=> (parseToolCalls(text) # <<>>)
               /\ Len(geminiHistory') - Len(handed.history)
                    = IF parseToolCalls(text) # <<>> THEN 3 ELSE 2]_vars

C22_Witness ==
    /\ turn.st = "idle" /\ Len(response) = 1
    /\ Len(geminiHistory) = 3
    /\ geminiHistory[2] = [role |-> "model", text |-> response[1].originalText]
    /\ geminiHistory[3] = [role |-> "model", text |-> response[1].text]
    /\ geminiHistory[2] # geminiHistory[3]

\* C14: when the backend call fails, generateContent returns an error
\* message only, without text or tool results, and no tool function is
\* executed for that turn.
C14_BackendFailureReturnsOnlyError ==
    [][/\ (turn.st = "awaitModel" \/ turn'.st = "awaitModel") => execLog' = execLog
       /\ (turn.st = "awaitModel" /\ turn'.st = "idle")
            => /\ Len(response') = 1
               /\ DOMAIN response'[1] = {"error"}
               /\ pc' = "idle"]_vars

C14_Witness ==
    /\ turn.st = "idle"
    /\ Len(response) = 1 /\ DOMAIN response[1] = {"error"}
    /\ Len(chatHistory) = 2 /\ chatHistory[2].role = "assistant"
    /\ execLog = <<>>

----------------------------------------------------------------------------
(* The conversation state over many turns: the turns of _handleUserMessage
   with the dispatch pass left out, and the clearing of the history *)

\* the turns begin while no more entries than this have been pushed
MaxAppends == 12

\* the entries pushed since the history was last cleared
SinceClear(log) ==
    LET marks == {i \in 1..Len(log) : log[i].role = "cleared"}
    IN  IF marks = {} THEN log ELSE SubSeq(log, Max(marks) + 1, Len(log))

Pushes(log) == SelectSeq(log, LAMBDA e : e.role # "cleared")

\* the text of the n-th entry
Serial(n) == <<ToString(n)>>

\* _buildChatHistory handing over a cut copy and leaving this.chatHistory as it is
TurnBeginsWithoutTruncation ==
    /\ turn.st = "idle"
    /\ Len(Pushes(appended)) <= MaxAppends
    /\ chatHistory' = Append(chatHistory,
            [role |-> "user", content |-> Serial(Len(appended) + 1)])
    /\ disabled' = {}
    /\ isLoading' = TRUE
    /\ geminiHistory' = geminiHistory
    /\ handed' = [history |-> buildChatHistory(geminiHistory),
                  catalog |-> IF useTools THEN <<getAvailableTools(tools)>> ELSE <<>>]
    /\ turn' = [st |-> "awaitModel", prompt |-> Serial(Len(appended) + 1)]
    /\ UNCHANGED <<passVars, tools, toolResults, inv, execLog, fnReturned,
                   posted, inbox,
                   response, enableTools, outbox, running, appended, registered>>

\* _handleUserMessage(text) up to the await of chat.sendMessage(fullPrompt)
TurnBegins ==
    /\ turn.st = "idle"
    /\ Len(Pushes(appended)) <= MaxAppends
    /\ chatHistory' = Append(chatHistory,
            [role |-> "user", content |-> Serial(Len(appended) + 1)])
    /\ disabled' = {}
    /\ isLoading' = TRUE
    /\ geminiHistory' = buildChatHistory(geminiHistory)
    /\ handed' = [history |-> buildChatHistory(geminiHistory),
                  catalog |-> IF useTools THEN <<getAvailableTools(tools)>> ELSE <<>>]
    /\ turn' = [st |-> "awaitModel", prompt |-> Serial(Len(appended) + 1)]
    /\ UNCHANGED <<passVars, tools, toolResults, inv, execLog, fnReturned,
                   posted, inbox,
                   response, enableTools, outbox, running, appended, registered>>

\* chat.sendMessage resolves: the prompt and the reply are pushed; a reply
\* without tool calls is returned, one with tool calls goes to the dispatch
\* pass, which awaits the tools
TurnPushes(withToolResults) ==
    /\ turn.st = "awaitModel"
    /\ LET n == Len(appended)
           pushed == << [role |-> "user", text |-> turn.prompt],
                        [role |-> "model", text |-> Serial(n + 2)] >>
       IN  /\ geminiHistory' = geminiHistory \o pushed
           /\ appended' = appended \o pushed
           /\ IF withToolResults
              THEN /\ turn' = [turn EXCEPT !.st = "tools"]
                   /\ UNCHANGED <<response, chatHistory, isLoading, disabled>>
              ELSE /\ turn' = TurnIdle
                   /\ response' = << [text |-> Serial(n + 2), originalText |-> Serial(n + 2),
                                      toolResults |-> <<>>] >>
                   /\ chatHistory' = Append(chatHistory,
                            [role |-> "assistant", content |-> Serial(n + 2)])
                   /\ isLoading' = FALSE
                   /\ disabled' = {}
    /\ UNCHANGED <<passVars, tools, toolResults, inv, execLog, fnReturned,
                   posted, inbox, handed, enableTools, outbox, running, registered>>

\* the push of the processed text onto the array that was handed to startChat
TurnPushesProcessedOntoHanded ==
    /\ turn.st = "tools"
    /\ LET n == Len(appended)
           raw == SelectSeq(SinceClear(appended), LAMBDA e : e.role = "model")
           processed == [role |-> "model", text |-> Serial(n + 1)]
       IN  /\ geminiHistory' = Append(handed.history, processed)
           /\ appended' = Append(appended, processed)
           /\ response' = << [text |-> Serial(n + 1),
                              originalText |-> IF raw = <<>> THEN <<>> ELSE raw[Len(raw)].text,
                              toolResults |-> <<"results">>] >>
           /\ chatHistory' = Append(chatHistory,
                    [role |-> "assistant", content |-> Serial(n + 1)])
    /\ isLoading' = FALSE
    /\ disabled' = {}
    /\ turn' = TurnIdle
    /\ UNCHANGED <<passVars, tools, toolResults, inv, execLog, fnReturned,
                   posted, inbox, handed, enableTools, outbox, running, registered>>

\* executeToolCalls has returned with records: the processed text is pushed
\* to this.chatHistory and returned
TurnPushesProcessed ==
    /\ turn.st = "tools"
    /\ LET n == Len(appended)
           raw == SelectSeq(SinceClear(appended), LAMBDA e : e.role = "model")
           processed == [role |-> "model", text |-> Serial(n + 1)]
       IN  /\ geminiHistory' = Append(geminiHistory, processed)
           /\ appended' = Append(appended, processed)
           /\ response' = << [text |-> Serial(n + 1),
                              originalText |-> IF raw = <<>> THEN <<>> ELSE raw[Len(raw)].text,
                              toolResults |-> <<"results">>] >>
           /\ chatHistory' = Append(chatHistory,
                    [role |-> "assistant", content |-> Serial(n + 1)])
    /\ isLoading' = FALSE
    /\ disabled' = {}
    /\ turn' = TurnIdle
    /\ UNCHANGED <<passVars, tools, toolResults, inv, execLog, fnReturned,
                   posted, inbox, handed, enableTools, outbox, running, registered>>

InitHistory == InitTools

NextHistory ==
    \/ TurnBegins
    \/ \E withToolResults \in BOOLEAN : TurnPushes(withToolResults)
    \/ TurnPushesProcessed
    \/ ClickClear
    \/ HandleClearHistory

SpecHistory == InitHistory /\ [][NextHistory]_vars

\* C12: the history handed to the backend holds at most maxHistoryLength
\* turns, and when more have been appended it is exactly the most recent
\* maxHistoryLength of them, in order.
C12_HandedHistoryCapped ==
    [][(turn.st = "idle" /\ turn'.st = "awaitModel")
        => LET log == SinceClear(appended)
               h == handed'.history
           IN  /\ Len(h) <= maxHistoryLength
               /\ Len(log) <= maxHistoryLength => h = log
               /\ Len(log) > maxHistoryLength
                    => h = [k \in 1..maxHistoryLength |->
                                log[Len(log) - maxHistoryLength + k]]]_vars

C12_Witness ==
    /\ turn.st = "awaitModel"
    /\ Len(appended) = 12 /\ Pushes(appended) = appended
    /\ Len(handed.history) = 10
    /\ handed.history[1] = appended[3]
    /\ handed.history[10] = appended[12]

\* C23 as stated: in every reachable state the stored history holds at most
\* maxHistoryLength turns.
C23_StoredHistoryCapped == Len(geminiHistory) <= maxHistoryLength

\* C23 as amended: the stored history holds at most maxHistoryLength turns
\* right after _buildChatHistory has run at the start of a turn.
C23_StoredHistoryCappedAtHandOver ==
    [][(turn.st = "idle" /\ turn'.st = "awaitModel")
        => /\ Len(geminiHistory') <= maxHistoryLength
           /\ geminiHistory' = handed'.history]_vars

C23_Witness ==
    /\ turn.st = "awaitModel"
    /\ Len(appended) = 12 /\ Pushes(appended) = appended
    /\ Len(geminiHistory) = 10
    /\ geminiHistory = SubSeq(appended, 3, 12)

\* C24: truncation keeps the user/model pairing: after successful turns, with
\* or without tool calls and with no clearing, whenever the history handed to
\* the backend is not empty, its first turn has the role user.
C24_HandedHistoryStartsWithUser ==
    (Pushes(appended) = appended /\ handed.history # <<>>)
        => handed.history[1].role = "user"

\* the last clearing of the log happened while a turn was waiting for the
\* backend or for a tool
ClearedInFlight(log) ==
    LET marks == {i \in 1..Len(log) : log[i].role = "cleared"}
    IN  marks # {} /\ log[Max(marks)].text \in {<<"awaitModel">>, <<"tools">>}

IsSuffix(s, t) ==
    Len(s) <= Len(t) /\ s = SubSeq(t, Len(t) - Len(s) + 1, Len(t))

\* C30: when the history is cleared while a turn waits for the backend or for
\* a tool, the history holds from then on only turns appended after the
\* clearing, also once that turn has completed.
C30_NothingFromBeforeTheClear ==
    ClearedInFlight(appended) => IsSuffix(geminiHistory, SinceClear(appended))

C30_Witness ==
    /\ ClearedInFlight(appended)
    /\ turn.st = "idle"
    /\ Len(appended) = 4
    /\ appended[3] = [role |-> "cleared", text |-> <<"tools">>]
    /\ geminiHistory = << appended[4] >>

\* the last entry of the log tells that the history was cleared while no
\* turn was in flight
ClearedAtRest(log) ==
    log # <<>> /\ log[Len(log)] = [role |-> "cleared", text |-> <<"idle">>]

\* C13: after the history is cleared with no turn in flight the conversation
\* state is empty and the next turn hands an empty history to the backend;
\* clearing from the chat view empties the model history and the chat log.
C13_ClearEmptiesHistory ==
    [][/\ (inbox # <<>> /\ Head(inbox).command = "clearHistory" /\ inbox' = Tail(inbox))
            => (geminiHistory' = <<>> /\ chatHistory' = <<>>)
       /\ ClearedAtRest(appended') => geminiHistory' = <<>>
       /\ (ClearedAtRest(appended) /\ turn.st = "idle" /\ turn'.st = "awaitModel")
            => handed'.history = <<>>]_vars

C13_Witness ==
    /\ ClearedAtRest(appended) /\ Len(appended) >= 3
    /\ turn.st = "awaitModel"
    /\ handed.history = <<>>
    /\ Len(chatHistory) = 1

----------------------------------------------------------------------------
(* The registry under repeated registrations *)

MaxRegistrations == 5

ToolNames == {<<"read-file">>, <<"get-diagnostics">>}

ToolFunctions == {"getDiagnostics", "testTool"}

RequiredLists == {<<>>, <<"file_path">>}

\* toolManager.registerTool(toolName, toolFunction, {required})
RegisterTool(toolName, toolFunction, required) ==
    /\ Len(registered) < MaxRegistrations
    /\ tools' = registerTool(tools, toolName, toolFunction, required)
    /\ registered' = Append(registered,
            [name |-> toolName, execute |-> toolFunction, required |-> required])
    /\ UNCHANGED <<passVars, toolResults, inv, execLog, fnReturned, chatVars,
                   handed, response, enableTools, outbox, running, appended>>

InitRegistry == InitTools

NextRegistry ==
    \E toolName \in ToolNames, toolFunction \in ToolFunctions, required \in RequiredLists :
        RegisterTool(toolName, toolFunction, required)

SpecRegistry == InitRegistry /\ [][NextRegistry]_vars

\* C18: registering a name that is registered does not fail; the registry
\* holds one entry per distinct name, with the function and the schema of the
\* last registration of that name, and getAvailableTools lists each name once.
C18_LastRegistrationWins ==
    LET names == {registered[i].name : i \in 1..Len(registered)}
    IN  /\ DOMAIN tools = names
        /\ \A n \in names :
              LET last == Max({i \in 1..Len(registered) : registered[i].name = n})
              IN  tools[n] = [execute |-> registered[last].execute,
                              required |-> registered[last].required]
        /\ Cardinality(getAvailableTools(tools)) = Cardinality(names)
        /\ \A a \in getAvailableTools(tools) : a.required = tools[a.name].required
        /\ Len(registered) < MaxRegistrations
              => \A n \in names : ENABLED RegisterTool(n, "testTool", <<>>)

C18_Witness ==
    /\ Len(registered) = 4
    /\ registered[3].name = <<"read-file">> /\ registered[4].name = <<"read-file">>
    /\ registered[3].execute # registered[4].execute
    /\ tools[<<"read-file">>] = [execute |-> registered[4].execute,
                                 required |-> registered[4].required]
    /\ registered[4].required # registered[1].required

----------------------------------------------------------------------------
(* The turns as the view and the provider exchange messages: postMessage
   delivers later, and the handler of onDidReceiveMessage is async, so the
   provider takes the next message while a turn awaits the backend *)

MaxSends == 3

\* sendMessage(): the Send button or the Enter key, with `userText` typed
ViewSends(userText) ==
    /\ Len(SentMessages) < MaxSends
    /\ userText # <<>> /\ ~isLoading
    /\ LET message == [command |-> "sendMessage", text |-> userText]
       IN  /\ posted' = Append(posted, message)
           /\ inbox' = Append(inbox, message)
    /\ UNCHANGED <<passVars, tools, toolResults, inv, execLog, fnReturned,
                   chatHistory, disabled, isLoading, turn, geminiHistory, auxVars>>

\* generateContent pushing the user entry before it awaits chat.sendMessage
ProviderReceivesPushesUser ==
    /\ inbox # <<>> /\ Head(inbox).command = "sendMessage"
    /\ inbox' = Tail(inbox)
    /\ chatHistory' = Append(chatHistory, [role |-> "user", content |-> Head(inbox).text])
    /\ outbox' = outbox \o << [command |-> "updateChat"], [command |-> "startLoading"] >>
    /\ geminiHistory' = Append(buildChatHistory(geminiHistory),
            [role |-> "user", text |-> buildStructuredPrompt(Head(inbox).text)])
    /\ appended' = Append(appended,
            [role |-> "user", text |-> buildStructuredPrompt(Head(inbox).text)])
    /\ handed' = [history |-> buildChatHistory(geminiHistory),
                  catalog |-> IF useTools THEN <<getAvailableTools(tools)>> ELSE <<>>]
    /\ running' = Append(running, [prompt |-> buildStructuredPrompt(Head(inbox).text)])
    /\ UNCHANGED <<passVars, tools, toolResults, inv, execLog, fnReturned,
                   posted, disabled, isLoading, turn,
                   response, enableTools, registered>>

\* case 'sendMessage': _handleUserMessage(text) up to the await of
\* chat.sendMessage(fullPrompt) in generateContent
ProviderReceives ==
    /\ inbox # <<>> /\ Head(inbox).command = "sendMessage"
    /\ inbox' = Tail(inbox)
    /\ chatHistory' = Append(chatHistory, [role |-> "user", content |-> Head(inbox).text])
    /\ outbox' = outbox \o << [command |-> "updateChat"], [command |-> "startLoading"] >>
    /\ geminiHistory' = buildChatHistory(geminiHistory)
    /\ handed' = [history |-> buildChatHistory(geminiHistory),
                  catalog |-> IF useTools THEN <<getAvailableTools(tools)>> ELSE <<>>]
    /\ running' = Append(running, [prompt |-> buildStructuredPrompt(Head(inbox).text)])
    /\ UNCHANGED <<passVars, tools, toolResults, inv, execLog, fnReturned,
                   posted, disabled, isLoading, turn,
                   response, enableTools, appended, registered>>

Remove(seq, k) == SubSeq(seq, 1, k - 1) \o SubSeq(seq, k + 1, Len(seq))

\* chat.sendMessage of the k-th call in progress resolves with a text that
\* holds no tool call: the pushes, the dispatch pass that finds nothing, the
\* return, and the rest of _handleUserMessage
CallReplies(k, responseText) ==
    /\ k \in 1..Len(running)
    /\ parseToolCalls(responseText) = <<>>
    /\ LET pushed == << [role |-> "user", text |-> running[k].prompt],
                        [role |-> "model", text |-> responseText] >>
       IN  /\ geminiHistory' = geminiHistory \o pushed
           /\ appended' = appended \o pushed
    /\ response' = << [text |-> responseText, originalText |-> responseText,
                       toolResults |-> <<>>] >>
    /\ outbox' = outbox \o << [command |-> "stopLoading"], [command |-> "updateChat"] >>
    /\ chatHistory' = Append(chatHistory, [role |-> "assistant", content |-> responseText])
    /\ running' = Remove(running, k)
    /\ UNCHANGED <<passVars, tools, toolResults, inv, execLog, fnReturned,
                   posted, inbox, disabled, isLoading, turn,
                   handed, enableTools, registered>>

\* chat.sendMessage of the k-th call in progress rejects
CallFails(k, message) ==
    /\ k \in 1..Len(running)
    /\ response' = << [error |-> <<"Error calling Gemini API: ">> \o message] >>
    /\ outbox' = outbox \o << [command |-> "stopLoading"], [command |-> "updateChat"] >>
    /\ chatHistory' = Append(chatHistory,
            [role |-> "assistant",
             content |-> <<"Error: ", "Error calling Gemini API: ">> \o message])
    /\ running' = Remove(running, k)
    /\ UNCHANGED <<passVars, tools, toolResults, inv, execLog, fnReturned,
                   posted, inbox, disabled, isLoading, turn, geminiHistory,
                   handed, enableTools, appended, registered>>

\* the message listener of the view: updateChat renders the history again,
\* startLoading and stopLoading call showLoading and hideLoading
ViewReceives ==
    /\ outbox # <<>>
    /\ outbox' = Tail(outbox)
    /\ isLoading' = CASE Head(outbox).command = "startLoading" -> TRUE
                      [] Head(outbox).command = "stopLoading" -> FALSE
                      [] OTHER -> isLoading
    /\ disabled' = IF Head(outbox).command = "updateChat" THEN {} ELSE disabled
    /\ UNCHANGED <<passVars, tools, toolResults, inv, execLog, fnReturned,
                   posted, inbox, chatHistory, turn, geminiHistory,
                   handed, response, enableTools, running, appended, registered>>

InitTurns == InitTools

NextTurns ==
    \/ \E userText \in UserTexts : ViewSends(userText)
    \/ ProviderReceives
    \/ \E k \in 1..MaxSends : CallReplies(k, Prose)
    \/ \E k \in 1..MaxSends, message \in ModelErrorMessages : CallFails(k, message)
    \/ ViewReceives

SpecTurns == InitTurns /\ [][NextTurns]_vars

\* C19: no two turns overlap on the same conversation state, in whatever
\* order the view sends sendMessage and receives startLoading and
\* stopLoading.
C19_NoOverlappingTurns == Len(running) <= 1

====
